---- MODULE Spec2Model ----
(***************************************************************************)
(* LinearAuthButton (src/components/LinearAuthButton.tsx): the client-side *)
(* OAuth / CSRF flow, the team dedup check and the webhook deployment.     *)
(*                                                                         *)
(* The component is a React function component.  Its hook state is the     *)
(* variables accessToken .. loading; `rendered` is the snapshot of hook    *)
(* state and props the last render closed over; `pending` holds the        *)
(* effects that render scheduled.  Effects run in declaration order with   *)
(* the values of `rendered`; event handlers and promise callbacks run      *)
(* only once the component has rendered its current state and flushed its  *)
(* effects (Quiescent).                                                    *)
(***************************************************************************)
EXTENDS Integers, Sequences, FiniteSets, TLC

VARIABLES
    mounted,          \* the page holding the component is loaded
    search,           \* window.location.search: [code, state]
    verification,     \* localStorage["linear-verification"]
    storageKey,       \* localStorage has an entry under LINEAR.STORAGE_KEY
    restoredApiKey,   \* prop
    restored,         \* prop
    accessToken,      \* useState("")
    teams,            \* useState([])
    chosenTeam,       \* useState()
    user,             \* useState()
    deployed,         \* useState(false)
    loading,          \* useState(false)
    rendered,         \* hook state and props captured by the last render
    pending,          \* effects scheduled by the last render, not yet run
    exchangeInFlight, \* exchangeLinearToken promises not yet settled
    contextInFlight,  \* getLinearContext promises not yet settled
    dedupInFlight,    \* checkForExistingTeam promises not yet settled
    saveInFlight,     \* saveLinearContext promises not yet settled
    webhookInFlight,  \* setLinearWebhook promises not yet settled
    exchangeCalls,    \* log: codes passed to exchangeLinearToken
    contextCalls,     \* log: tokens passed to getLinearContext
    dedupCalls,       \* log: team ids passed to checkForExistingTeam
    saveCalls,        \* log: team ids passed to saveLinearContext
    webhookCalls,     \* log: team ids passed to setLinearWebhook
    onAuthLog,        \* log: arguments of onAuth
    onDeployLog,      \* log: arguments of onDeployWebhook
    alerts,           \* number of alert() calls made, per message
    mountState,       \* history: location, storage and props at page load
    existsAnswered,   \* history: team ids a dedup check answered exists for
    inputs            \* number of prop changes and team selections so far

hook == <<accessToken, teams, chosenTeam, user, deployed, loading>>
props == <<restoredApiKey, restored>>
page == <<mounted, search, verification, storageKey>>
inflight == <<exchangeInFlight, contextInFlight, dedupInFlight, saveInFlight,
              webhookInFlight>>
calls == <<exchangeCalls, contextCalls, dedupCalls, saveCalls, webhookCalls>>
emitted == <<onAuthLog, onDeployLog, alerts>>
history == <<mountState, existsAnswered, inputs>>
vars == <<page, props, hook, rendered, pending, inflight, calls, emitted, history>>

-----------------------------------------------------------------------------
(* Bounds of the model *)

\* prop changes by the parent plus team selections by the user
MaxInputs == 2

-----------------------------------------------------------------------------
(* Values *)

Null == "<null>"            \* null / undefined
MARKER == "linear"          \* provider marker looked for in `state`
Uuids == {"u1", "u2"}       \* results of uuid()
StoredUuids == {"u1"}       \* uuid of the code an earlier page load stored
Codes == {"abc"}            \* authorization codes
StateParams == {"linear-u1", "linear-u2", "other-provider-u1"}
Tokens == {"tok"}           \* access tokens the exchange returns
RestoredKeys == {"k1"}      \* non-empty keys the parent restores
TeamIds == {"T1", "T2"}
TeamLists == {<<>>, <<"T1", "T2">>}
UserIds == {"U1"}
NoParams == [code |-> Null, state |-> Null]   \* location without query

\* String.prototype.includes
Includes(s, sub) ==
    \E i \in 1..(Len(s) - Len(sub) + 1) : SubSeq(s, i, i + Len(sub) - 1) = sub

\* authResponse.get("state")?.includes("linear")
StateHasMarker(s) == s # Null /\ Includes(s, MARKER)

\* `linear-${uuid()}`
VerificationCode(u) == "linear-" \o u

\* alert(message)
AlertKinds == {"InvalidCode", "NoToken", "ExchangeError", "NoUserOrTeams",
               "ContextError", "DedupError", "SaveError", "WebhookError"}
Alert(shown, kind) == [shown EXCEPT ![kind] = @ + 1]

Range(s) == {s[i] : i \in 1..Len(s)}
Min(S) == CHOOSE x \in S : \A y \in S : x <= y

-----------------------------------------------------------------------------
(* Rendering *)

EXCHANGE == 1
RESTORE == 2
CONTEXT == 3
DEDUP == 4
Effects == {EXCHANGE, RESTORE, CONTEXT, DEDUP}

Current ==
    [accessToken |-> accessToken, teams |-> teams, chosenTeam |-> chosenTeam,
     user |-> user, deployed |-> deployed, loading |-> loading,
     restoredApiKey |-> restoredApiKey, restored |-> restored]

\* the mutant of ExchangeDeps: no dependency array, the effect runs after
\* every render
ExchangeDepsEveryRender(r) == <<r>>

\* dependency arrays of the four effects, evaluated on a render snapshot
ExchangeDeps(r) == <<>>
RestoreDeps(r) == <<r.restoredApiKey>>
ContextDeps(r) == <<r.accessToken>>
DedupDeps(r) == <<r.chosenTeam>>

Deps(e, r) ==
    CASE e = EXCHANGE -> ExchangeDeps(r)
      [] e = RESTORE -> RestoreDeps(r)
      [] e = CONTEXT -> ContextDeps(r)
      [] e = DEDUP -> DedupDeps(r)

\* The component has rendered its current state and run the effects of it.
Quiescent == mounted /\ pending = {} /\ rendered = Current

\* The effect e is the next one to run.
Runs(e) == mounted /\ pending # {} /\ Min(pending) = e

\* Re-render after a state or prop change: the effects whose dependencies
\* changed since the previous render are scheduled.
Render ==
    /\ mounted
    /\ pending = {}
    /\ rendered # Current
    /\ rendered' = Current
    /\ pending' = {e \in Effects : Deps(e, Current) # Deps(e, rendered)}
    /\ UNCHANGED <<page, props, hook, inflight, calls, emitted, history>>

-----------------------------------------------------------------------------
(* Effects *)

\* the mutants of validateReturn: the comparison with the stored code is
\* left out; the marker test is left out
validateReturnNoCompare(returned, stored) ==
    IF ~StateHasMarker(returned) THEN "NotOurFlow" ELSE "Ok"
validateReturnNoMarker(returned, stored) ==
    IF returned # stored THEN "Mismatch" ELSE "Ok"

\* the verification of the returned state against the stored code
validateReturn(returned, stored) ==
    IF ~StateHasMarker(returned) THEN "NotOurFlow"
    ELSE IF returned # stored THEN "Mismatch"
    ELSE "Ok"

\* useEffect(..., []) : exchange the temporary auth code for an access token
ExchangeEffect ==
    /\ Runs(EXCHANGE)
    /\ pending' = pending \ {EXCHANGE}
    /\ IF rendered.accessToken # "" THEN
            UNCHANGED <<loading, exchangeInFlight, exchangeCalls, alerts>>
       ELSE IF search.code = Null THEN
            UNCHANGED <<loading, exchangeInFlight, exchangeCalls, alerts>>
       ELSE IF validateReturn(search.state, verification) = "NotOurFlow" THEN
            UNCHANGED <<loading, exchangeInFlight, exchangeCalls, alerts>>
       ELSE IF validateReturn(search.state, verification) = "Mismatch" THEN
            /\ alerts' = Alert(alerts, "InvalidCode")
            /\ UNCHANGED <<loading, exchangeInFlight, exchangeCalls>>
       ELSE
            /\ loading' = TRUE
            /\ exchangeCalls' = Append(exchangeCalls, search.code)
            /\ exchangeInFlight' = exchangeInFlight \cup
                    {[n |-> Len(exchangeCalls) + 1, code |-> search.code]}
            /\ UNCHANGED alerts
    /\ UNCHANGED <<page, props, accessToken, teams, chosenTeam, user, deployed,
                   rendered, contextInFlight, dedupInFlight, saveInFlight,
                   webhookInFlight, contextCalls, dedupCalls, saveCalls,
                   webhookCalls, onAuthLog, onDeployLog, history>>

\* useEffect(..., [restoredApiKey]) : restore the access token
RestoreEffect ==
    /\ Runs(RESTORE)
    /\ pending' = pending \ {RESTORE}
    /\ IF rendered.restoredApiKey # "" THEN
            accessToken' = rendered.restoredApiKey
       ELSE
            UNCHANGED accessToken
    /\ UNCHANGED <<page, props, teams, chosenTeam, user, deployed, loading,
                   rendered, inflight, calls, emitted, history>>

\* useEffect(..., [accessToken]) : notify onAuth, fetch the user and the teams
ContextEffect ==
    /\ Runs(CONTEXT)
    /\ pending' = pending \ {CONTEXT}
    /\ IF rendered.accessToken = "" THEN
            UNCHANGED <<onAuthLog, contextCalls, contextInFlight>>
       ELSE IF rendered.user # Null THEN
            UNCHANGED <<onAuthLog, contextCalls, contextInFlight>>
       ELSE
            /\ onAuthLog' = Append(onAuthLog, rendered.accessToken)
            /\ contextCalls' = Append(contextCalls, rendered.accessToken)
            /\ contextInFlight' = contextInFlight \cup
                    {[n |-> Len(contextCalls) + 1]}
    /\ UNCHANGED <<page, props, hook, rendered, exchangeInFlight,
                   dedupInFlight, saveInFlight, webhookInFlight, exchangeCalls,
                   dedupCalls, saveCalls, webhookCalls, onDeployLog, alerts,
                   history>>

\* useEffect(..., [chosenTeam]) : check whether the team already exists
DedupEffect ==
    /\ Runs(DEDUP)
    /\ pending' = pending \ {DEDUP}
    /\ IF rendered.chosenTeam = Null THEN
            UNCHANGED <<loading, dedupCalls, dedupInFlight>>
       ELSE
            /\ loading' = TRUE
            /\ dedupCalls' = Append(dedupCalls, rendered.chosenTeam)
            /\ dedupInFlight' = dedupInFlight \cup
                    {[n |-> Len(dedupCalls) + 1,
                      team |-> rendered.chosenTeam,
                      user |-> rendered.user,
                      apiKey |-> rendered.accessToken]}
    /\ UNCHANGED <<page, props, accessToken, teams, chosenTeam, user, deployed,
                   rendered, exchangeInFlight, contextInFlight, saveInFlight,
                   webhookInFlight, exchangeCalls, contextCalls, saveCalls,
                   webhookCalls, emitted, history>>

-----------------------------------------------------------------------------
(* Completions of the token exchange *)

\* .then(body => ...) of exchangeLinearToken; token = "" : no access_token
ExchangeResolve(c, token) ==
    /\ Quiescent
    /\ c \in exchangeInFlight
    /\ exchangeInFlight' = exchangeInFlight \ {c}
    /\ IF token # "" THEN
            /\ accessToken' = token
            /\ UNCHANGED <<alerts, search, storageKey>>
       ELSE
            /\ alerts' = Alert(alerts, "NoToken")
            /\ search' = NoParams
            /\ storageKey' = FALSE
            /\ UNCHANGED accessToken
    /\ loading' = FALSE
    /\ UNCHANGED <<mounted, verification, props, teams, chosenTeam, user,
                   deployed, rendered, pending, contextInFlight, dedupInFlight,
                   saveInFlight, webhookInFlight, calls, onAuthLog,
                   onDeployLog, history>>

\* the mutant of ExchangeReject: the loading flag is not reset
ExchangeRejectKeepsLoading(c) ==
    /\ Quiescent
    /\ c \in exchangeInFlight
    /\ exchangeInFlight' = exchangeInFlight \ {c}
    /\ alerts' = Alert(alerts, "ExchangeError")
    /\ UNCHANGED <<page, props, hook, rendered, pending, contextInFlight,
                   dedupInFlight, saveInFlight, webhookInFlight, calls,
                   onAuthLog, onDeployLog, history>>

\* .catch(err => ...) of exchangeLinearToken
ExchangeReject(c) ==
    /\ Quiescent
    /\ c \in exchangeInFlight
    /\ exchangeInFlight' = exchangeInFlight \ {c}
    /\ alerts' = Alert(alerts, "ExchangeError")
    /\ loading' = FALSE
    /\ UNCHANGED <<page, props, accessToken, teams, chosenTeam, user, deployed,
                   rendered, pending, contextInFlight, dedupInFlight,
                   saveInFlight, webhookInFlight, calls, onAuthLog,
                   onDeployLog, history>>

-----------------------------------------------------------------------------
(* Completions of the context fetch *)

\* responses of getLinearContext: res.data.teams.nodes and res.data.viewer,
\* either of which may be missing
ContextResponses ==
    {res \in [hasTeams : BOOLEAN, nodes : TeamLists, viewer : UserIds \cup {Null}] :
        ~res.hasTeams => res.nodes = <<>>}

\* .then(res => ...) of getLinearContext.  With the team list missing,
\* reading res.data.teams.nodes throws and the .catch handler runs.
ContextResolve(c, res) ==
    /\ Quiescent
    /\ c \in contextInFlight
    /\ contextInFlight' = contextInFlight \ {c}
    /\ IF ~res.hasTeams THEN
            /\ alerts' = Alert(Alert(alerts, "NoUserOrTeams"), "ContextError")
            /\ UNCHANGED <<teams, user>>
       ELSE
            /\ alerts' = IF res.viewer = Null
                         THEN Alert(alerts, "NoUserOrTeams")
                         ELSE alerts
            /\ teams' = res.nodes
            /\ user' = res.viewer
    /\ UNCHANGED <<page, props, accessToken, chosenTeam, deployed, loading,
                   rendered, pending, exchangeInFlight, dedupInFlight,
                   saveInFlight, webhookInFlight, calls, onAuthLog,
                   onDeployLog, history>>

\* .catch(err => ...) of getLinearContext
ContextReject(c) ==
    /\ Quiescent
    /\ c \in contextInFlight
    /\ contextInFlight' = contextInFlight \ {c}
    /\ alerts' = Alert(alerts, "ContextError")
    /\ UNCHANGED <<page, props, hook, rendered, pending, exchangeInFlight,
                   dedupInFlight, saveInFlight, webhookInFlight, calls,
                   onAuthLog, onDeployLog, history>>

-----------------------------------------------------------------------------
(* Team selection and completions of the dedup check *)

\* the mutant of SelectEnabled: the loading flag does not disable the select
SelectEnabledIgnoresLoading == Len(teams) > 0 /\ restored /\ ~deployed

\* the <select> is rendered and enabled
SelectEnabled == Len(teams) > 0 /\ restored /\ ~(deployed \/ loading)

\* onChange of the team <select>
SelectTeam(t) ==
    /\ Quiescent
    /\ SelectEnabled
    /\ inputs < MaxInputs
    /\ t \in Range(teams)
    /\ t # chosenTeam
    /\ chosenTeam' = t
    /\ inputs' = inputs + 1
    /\ UNCHANGED <<page, props, accessToken, teams, user, deployed, loading,
                   rendered, pending, inflight, calls, emitted, mountState,
                   existsAnswered>>

\* the context handed to onDeployWebhook, built from the values the callback
\* closed over
Context(c) == [userId |-> c.user, teamId |-> c.team, apiKey |-> c.apiKey]

\* .then(res => ...) of checkForExistingTeam.  With no user, reading user.id
\* throws after setDeployed(true) and the .catch handler runs.
DedupResolve(c, exists) ==
    /\ Quiescent
    /\ c \in dedupInFlight
    /\ dedupInFlight' = dedupInFlight \ {c}
    /\ IF exists THEN
            /\ deployed' = TRUE
            /\ existsAnswered' = existsAnswered \cup {c.team}
            /\ IF c.user = Null THEN
                    /\ alerts' = Alert(alerts, "DedupError")
                    /\ UNCHANGED onDeployLog
               ELSE
                    /\ onDeployLog' = Append(onDeployLog, Context(c))
                    /\ UNCHANGED alerts
       ELSE
            /\ deployed' = FALSE
            /\ UNCHANGED <<existsAnswered, onDeployLog, alerts>>
    /\ loading' = FALSE
    /\ UNCHANGED <<page, props, accessToken, teams, chosenTeam, user, rendered,
                   pending, exchangeInFlight, contextInFlight, saveInFlight,
                   webhookInFlight, calls, onAuthLog, mountState, inputs>>

\* .catch(err => ...) of checkForExistingTeam
DedupReject(c) ==
    /\ Quiescent
    /\ c \in dedupInFlight
    /\ dedupInFlight' = dedupInFlight \ {c}
    /\ alerts' = Alert(alerts, "DedupError")
    /\ loading' = FALSE
    /\ UNCHANGED <<page, props, accessToken, teams, chosenTeam, user, deployed,
                   rendered, pending, exchangeInFlight, contextInFlight,
                   saveInFlight, webhookInFlight, calls, onAuthLog,
                   onDeployLog, history>>

-----------------------------------------------------------------------------
(* Deployment *)

\* <DeployButton> is rendered
DeployRendered == Len(teams) > 0 /\ restored /\ chosenTeam # Null

\* DeployButton itself: deploy() is callable whenever the button is rendered
DeployButtonDisabled == FALSE

\* the mutant of DeployGuard: the deployed flag is not consulted
DeployGuardIgnoresDeployed == chosenTeam = Null

\* if (!chosenTeam || deployed) return;
DeployGuard == chosenTeam = Null \/ deployed

\* deployWebhook, the onDeploy handler
DeployWebhook ==
    /\ Quiescent
    /\ DeployRendered
    /\ ~DeployButtonDisabled
    /\ IF DeployGuard THEN
            UNCHANGED <<deployed, saveCalls, saveInFlight, webhookCalls,
                        webhookInFlight>>
       ELSE
            /\ saveCalls' = Append(saveCalls, chosenTeam)
            /\ saveInFlight' = saveInFlight \cup {[n |-> Len(saveCalls) + 1]}
            /\ webhookCalls' = Append(webhookCalls, chosenTeam)
            /\ webhookInFlight' = webhookInFlight \cup
                    {[n |-> Len(webhookCalls) + 1,
                      team |-> chosenTeam,
                      user |-> user,
                      apiKey |-> accessToken]}
            /\ deployed' = TRUE
    /\ UNCHANGED <<page, props, accessToken, teams, chosenTeam, user, loading,
                   rendered, pending, exchangeInFlight, contextInFlight,
                   dedupInFlight, exchangeCalls, contextCalls, dedupCalls,
                   emitted, history>>

\* saveLinearContext settles; only a rejection has a handler
SaveSettle(c, ok) ==
    /\ Quiescent
    /\ c \in saveInFlight
    /\ saveInFlight' = saveInFlight \ {c}
    /\ alerts' = IF ok THEN alerts ELSE Alert(alerts, "SaveError")
    /\ UNCHANGED <<page, props, hook, rendered, pending, exchangeInFlight,
                   contextInFlight, dedupInFlight, webhookInFlight, calls,
                   onAuthLog, onDeployLog, history>>

\* the mutant of WebhookResolve: once a persistence failure was reported, a
\* provisioning success neither marks the team deployed nor is emitted
WebhookResolveBlockedBySaveError(c) ==
    /\ Quiescent
    /\ c \in webhookInFlight
    /\ webhookInFlight' = webhookInFlight \ {c}
    /\ IF alerts["SaveError"] > 0 THEN
            UNCHANGED <<deployed, alerts, onDeployLog>>
       ELSE IF c.user = Null THEN
            /\ deployed' = TRUE
            /\ alerts' = Alert(alerts, "WebhookError")
            /\ UNCHANGED onDeployLog
       ELSE
            /\ deployed' = TRUE
            /\ onDeployLog' = Append(onDeployLog, Context(c))
            /\ UNCHANGED alerts
    /\ UNCHANGED <<page, props, accessToken, teams, chosenTeam, user, loading,
                   rendered, pending, exchangeInFlight, contextInFlight,
                   dedupInFlight, saveInFlight, calls, onAuthLog, history>>

\* .then(() => ...) of setLinearWebhook.  With no user, reading user.id
\* throws after setDeployed(true) and the .catch handler runs.
WebhookResolve(c) ==
    /\ Quiescent
    /\ c \in webhookInFlight
    /\ webhookInFlight' = webhookInFlight \ {c}
    /\ deployed' = TRUE
    /\ IF c.user = Null THEN
            /\ alerts' = Alert(alerts, "WebhookError")
            /\ UNCHANGED onDeployLog
       ELSE
            /\ onDeployLog' = Append(onDeployLog, Context(c))
            /\ UNCHANGED alerts
    /\ UNCHANGED <<page, props, accessToken, teams, chosenTeam, user, loading,
                   rendered, pending, exchangeInFlight, contextInFlight,
                   dedupInFlight, saveInFlight, calls, onAuthLog, history>>

\* .catch(err => ...) of setLinearWebhook
WebhookReject(c) ==
    /\ Quiescent
    /\ c \in webhookInFlight
    /\ webhookInFlight' = webhookInFlight \ {c}
    /\ alerts' = Alert(alerts, "WebhookError")
    /\ UNCHANGED <<page, props, hook, rendered, pending, exchangeInFlight,
                   contextInFlight, dedupInFlight, saveInFlight, calls,
                   onAuthLog, onDeployLog, history>>

-----------------------------------------------------------------------------
(* Starting the flow, and the parent *)

\* the connect <button> is enabled
ConnectEnabled == ~(accessToken # "" \/ loading)

\* openLinearAuth: store a fresh verification code and leave the page
OpenLinearAuth(u) ==
    /\ Quiescent
    /\ ConnectEnabled
    /\ verification' = VerificationCode(u)
    /\ mounted' = FALSE
    /\ UNCHANGED <<search, storageKey, props, hook, rendered, pending,
                   inflight, calls, emitted, history>>

\* the parent re-renders the component with other props
PropsChange(key, flag) ==
    /\ Quiescent
    /\ inputs < MaxInputs
    /\ <<key, flag>> # <<restoredApiKey, restored>>
    /\ restoredApiKey' = key
    /\ restored' = flag
    /\ inputs' = inputs + 1
    /\ UNCHANGED <<page, hook, rendered, pending, inflight, calls, emitted,
                   mountState, existsAnswered>>

-----------------------------------------------------------------------------
(* The component after its first render, on a freshly loaded page *)

Init ==
    /\ mounted = TRUE
    /\ search \in {NoParams} \cup [code : Codes, state : StateParams \cup {Null}]
    /\ verification \in {Null} \cup {VerificationCode(u) : u \in StoredUuids}
    /\ storageKey = TRUE
    /\ restoredApiKey \in {""} \cup RestoredKeys
    /\ restored \in BOOLEAN
    /\ accessToken = ""
    /\ teams = <<>>
    /\ chosenTeam = Null
    /\ user = Null
    /\ deployed = FALSE
    /\ loading = FALSE
    /\ rendered = Current
    /\ pending = Effects
    /\ exchangeInFlight = {}
    /\ contextInFlight = {}
    /\ dedupInFlight = {}
    /\ saveInFlight = {}
    /\ webhookInFlight = {}
    /\ exchangeCalls = <<>>
    /\ contextCalls = <<>>
    /\ dedupCalls = <<>>
    /\ saveCalls = <<>>
    /\ webhookCalls = <<>>
    /\ onAuthLog = <<>>
    /\ onDeployLog = <<>>
    /\ alerts = [k \in AlertKinds |-> 0]
    /\ mountState = [search |-> search, verification |-> verification,
                     restoredApiKey |-> restoredApiKey]
    /\ existsAnswered = {}
    /\ inputs = 0

Next ==
    \/ Render
    \/ ExchangeEffect
    \/ RestoreEffect
    \/ ContextEffect
    \/ DedupEffect
    \/ \E c \in exchangeInFlight, token \in Tokens \cup {""} :
            ExchangeResolve(c, token)
    \/ \E c \in exchangeInFlight : ExchangeReject(c)
    \/ \E c \in contextInFlight, res \in ContextResponses :
            ContextResolve(c, res)
    \/ \E c \in contextInFlight : ContextReject(c)
    \/ \E t \in TeamIds : SelectTeam(t)
    \/ \E c \in dedupInFlight, exists \in BOOLEAN : DedupResolve(c, exists)
    \/ \E c \in dedupInFlight : DedupReject(c)
    \/ DeployWebhook
    \/ \E c \in saveInFlight, ok \in BOOLEAN : SaveSettle(c, ok)
    \/ \E c \in webhookInFlight : WebhookResolve(c)
    \/ \E c \in webhookInFlight : WebhookReject(c)
    \/ \E u \in Uuids : OpenLinearAuth(u)
    \/ \E key \in {""} \cup RestoredKeys, flag \in BOOLEAN :
            PropsChange(key, flag)

Spec == Init /\ [][Next]_vars

-----------------------------------------------------------------------------
(* The return from the provider, as the page load found it *)

\* the location carried a code
MountCode == mountState.search.code # Null

\* the returned state carried the marker and differed from the stored code
MountMismatch ==
    /\ MountCode
    /\ StateHasMarker(mountState.search.state)
    /\ mountState.search.state # mountState.verification

\* the returned state did not carry the marker
MountForeign == MountCode /\ ~StateHasMarker(mountState.search.state)

\* the returned state carried the marker and equalled the stored code
MountValid ==
    /\ MountCode
    /\ StateHasMarker(mountState.search.state)
    /\ mountState.search.state = mountState.verification

\* the exchange effect of the mount has run
ExchangeEffectRan == EXCHANGE \notin pending

-----------------------------------------------------------------------------
(* Claims *)

\* C1: exchangeLinearToken is invoked only from a location that carries a
\* code and a state that contains the provider marker and equals the stored
\* verification code, and it is passed that code; after a mismatched or a
\* foreign return no exchange is ever invoked.
C1_ExchangeOnlyAfterValidReturn ==
    /\ [](MountMismatch \/ MountForeign => exchangeCalls = <<>>)
    /\ [][exchangeCalls' # exchangeCalls =>
            /\ search.code # Null
            /\ StateHasMarker(search.state)
            /\ search.state = verification
            /\ exchangeCalls' = Append(exchangeCalls, search.code)]_vars

C1_Witness == MountValid /\ exchangeCalls = <<"abc">>

\* C2: after a return whose state carries the marker but differs from the
\* stored verification code, the alert is shown once, no exchange is invoked
\* and none is in flight, whatever happens later.
C2_MismatchAlertsAndHalts ==
    MountMismatch =>
        /\ exchangeCalls = <<>>
        /\ exchangeInFlight = {}
        /\ alerts["InvalidCode"] = IF ExchangeEffectRan THEN 1 ELSE 0

C2_Witness ==
    /\ MountMismatch
    /\ alerts["InvalidCode"] = 1
    /\ accessToken # ""
    /\ Quiescent

\* C3: after a return whose state does not carry the marker, no exchange is
\* invoked and no alert of the exchange path is shown, and the step that
\* ignores the return leaves the access token and the loading flag as they
\* were.
C3_ForeignIgnoredSilently ==
    /\ [](MountForeign =>
            /\ exchangeCalls = <<>>
            /\ alerts["InvalidCode"] = 0
            /\ alerts["NoToken"] = 0
            /\ alerts["ExchangeError"] = 0)
    /\ [][MountForeign /\ Runs(EXCHANGE) =>
            UNCHANGED <<accessToken, loading, alerts, exchangeCalls>>]_vars

C3_Witness ==
    /\ MountForeign
    /\ mountState.search.state = "other-provider-u1"
    /\ ExchangeEffectRan
    /\ Quiescent

\* C4: exchangeLinearToken is invoked at most once per mount.
C4_ExchangeAtMostOnce == Len(exchangeCalls) <= 1

\* the exchange failed, the code is still in the location and the component
\* has rendered again since
C4_Witness ==
    /\ Len(exchangeCalls) = 1
    /\ alerts["ExchangeError"] = 1
    /\ search.code # Null
    /\ accessToken = ""
    /\ Quiescent

\* the number of entries of the log equal to x
Count(log, x) == Cardinality({i \in 1..Len(log) : log[i] = x})

\* C5: when the page loads with a restored key, no exchange is ever invoked,
\* also when the location carries a valid code and state.
C5_RestoredKeyNoExchange ==
    mountState.restoredApiKey # "" => exchangeCalls = <<>>

\* C6: setLinearWebhook and saveLinearContext are invoked only while the
\* deployed flag is unset and no dedup check has answered exists for the
\* chosen team.
C6_NoProvisioningOnceExists ==
    [][webhookCalls' # webhookCalls \/ saveCalls' # saveCalls =>
            /\ ~deployed
            /\ chosenTeam \notin existsAnswered]_vars

\* the check answered exists, the deploy button is rendered, nothing was
\* provisioned
C6_Witness ==
    /\ chosenTeam \in existsAnswered
    /\ deployed
    /\ DeployRendered
    /\ ~DeployButtonDisabled
    /\ Quiescent
    /\ webhookCalls = <<>>
    /\ saveCalls = <<>>

\* C7: setLinearWebhook is invoked at most once per team and at most one
\* provisioning call is in flight.
C7_ProvisionAtMostOnce ==
    /\ \A t \in TeamIds : Count(webhookCalls, t) <= 1
    /\ Cardinality(webhookInFlight) <= 1

\* C9: onAuth is called at most once.
C9_OnAuthAtMostOnce == Len(onAuthLog) <= 1

\* a dedup check or a provisioning call of team t is in flight
InFlightFor(t) ==
    \/ \E c \in dedupInFlight : c.team = t
    \/ \E c \in webhookInFlight : c.team = t

\* the contexts handed to onDeployWebhook that name team t
EmittedFor(t) == {i \in 1..Len(onDeployLog) : onDeployLog[i].teamId = t}

\* C10: onDeployWebhook is never called twice for one team, and once the
\* deployed flag of the chosen team is set and its calls have settled, the
\* callback has been called for that team.
C10_OnDeployOncePerTeam ==
    /\ \A t \in TeamIds : Cardinality(EmittedFor(t)) <= 1
    /\ (Quiescent /\ deployed /\ chosenTeam # Null /\ ~InFlightFor(chosenTeam)
            => EmittedFor(chosenTeam) # {})

\* The team <select> is disabled while loading is set, and loading is set
\* while a dedup check is in flight: at most one dedup check is in flight, and
\* it is for the chosen team.  No team is reselected while a check is pending.
DedupSingleFlight ==
    /\ Cardinality(dedupInFlight) <= 1
    /\ \A c \in dedupInFlight : c.team = chosenTeam /\ loading

\* C11: once the access token is set to a non-empty value it is never
\* replaced by another value.
C11_OneAccessToken ==
    [][accessToken # "" => accessToken' = accessToken]_vars

\* a step in which an exchange failure is reported
ExchangeFailureStep ==
    \/ alerts'["NoToken"] # alerts["NoToken"]
    \/ alerts'["ExchangeError"] # alerts["ExchangeError"]

\* C12: every exchange failure, a response without access token as well as a
\* rejected call, leaves the access token as it was, removes the entry under
\* LINEAR.STORAGE_KEY and clears the query parameters of the location.
C12_ExchangeFailureCleansUp ==
    [][ExchangeFailureStep =>
            /\ accessToken' = accessToken
            /\ ~storageKey'
            /\ search' = NoParams]_vars

\* C13: a context response reported as lacking the team list or the viewer
\* populates neither the teams nor the user; a response with a viewer and an
\* empty team list raises no alert.
C13_IncompleteContextIsFailure ==
    /\ [][alerts'["NoUserOrTeams"] # alerts["NoUserOrTeams"] =>
            teams' = teams /\ user' = user]_vars
    /\ [][user = Null /\ user' # Null /\ teams' = <<>> =>
            alerts' = alerts]_vars

\* C14: getLinearContext is invoked at most once.
C14_ContextFetchedOnce == Len(contextCalls) <= 1

\* a step in which a dedup check is rejected
DedupRejectStep ==
    \E c \in dedupInFlight :
        /\ dedupInFlight' = dedupInFlight \ {c}
        /\ alerts' = Alert(alerts, "DedupError")
        /\ deployed' = deployed
        /\ existsAnswered' = existsAnswered

\* C15: when the dedup check of a chosen team that no deploy() has been
\* started for is rejected, the user is alerted, no dedup check is started
\* again, and the deployed flag is unset afterwards, so that deploy() is not
\* a no-op.
C15_DedupFailurePermitsDeploy ==
    [][DedupRejectStep /\ chosenTeam \notin Range(webhookCalls) =>
            /\ ~deployed'
            /\ ~DeployGuard'
            /\ dedupCalls' = dedupCalls
            /\ DEDUP \notin pending']_vars

\* a step in which a provisioning call is rejected
WebhookRejectStep ==
    \E c \in webhookInFlight :
        /\ webhookInFlight' = webhookInFlight \ {c}
        /\ alerts' = Alert(alerts, "WebhookError")
        /\ onDeployLog' = onDeployLog
        /\ deployed' = deployed

\* C16: when a provisioning call is rejected the user is alerted and the
\* deployed flag is set afterwards, and once a provisioning failure has been
\* reported no team is provisioned a second time.
C16_ProvisionFailureStillDeployed ==
    /\ [][WebhookRejectStep => deployed' /\ DeployGuard']_vars
    /\ [](alerts["WebhookError"] > 0 =>
            \A t \in TeamIds : Count(webhookCalls, t) <= 1)

\* a provisioning call completes successfully and its handler runs to the end
WebhookSuccessStep ==
    \E c \in webhookInFlight :
        /\ webhookInFlight' = webhookInFlight \ {c}
        /\ c.user # Null
        /\ alerts' = alerts

\* C17: deploy() issues the persistence call and the provisioning call
\* together; the outcome of the persistence call changes neither the
\* provisioning call, the deployed flag nor the emissions; and a provisioning
\* success marks the team deployed and emits onDeployWebhook whether or not a
\* persistence failure was reported.
C17_PersistenceIndependent ==
    /\ [][Len(saveCalls') > Len(saveCalls) =>
            /\ webhookCalls' = Append(webhookCalls, chosenTeam)
            /\ Cardinality(webhookInFlight') = Cardinality(webhookInFlight) + 1
            /\ deployed']_vars
    /\ [][saveInFlight' # saveInFlight /\ saveCalls' = saveCalls =>
            /\ webhookInFlight' = webhookInFlight
            /\ webhookCalls' = webhookCalls
            /\ deployed' = deployed
            /\ onDeployLog' = onDeployLog]_vars
    /\ [][WebhookSuccessStep =>
            /\ deployed'
            /\ Len(onDeployLog') = Len(onDeployLog) + 1]_vars

\* a persistence failure was reported, and the provisioning of the same
\* deploy() succeeded and was emitted
C17_Witness ==
    /\ alerts["SaveError"] = 1
    /\ Len(saveCalls) = 1
    /\ existsAnswered = {}
    /\ webhookInFlight = {}
    /\ deployed
    /\ Len(onDeployLog) = 1

\* an error of the taxonomy is reported to the user
Alerted(kinds) == \E k \in kinds : alerts'[k] # alerts[k]

C19_LoadingWhileInFlight ==
    exchangeInFlight # {} \/ dedupInFlight # {} =>
        /\ loading
        /\ ~ConnectEnabled
        /\ ~SelectEnabled

\* a dedup check is in flight for the chosen team, with teams to pick from
C19_Witness ==
    /\ Quiescent
    /\ \E c \in dedupInFlight : c.team = chosenTeam
    /\ Len(teams) > 1
    /\ restored
    /\ ~deployed

\* C20: once the deployed flag is set for the chosen team, by a dedup answer
\* that the team exists or by a deploy() for it, no later step that keeps
\* the team chosen unsets the flag.
C20_DeployedMonotone ==
    [][/\ deployed
       /\ chosenTeam # Null
       /\ chosenTeam \in existsAnswered \cup Range(webhookCalls)
       /\ chosenTeam' = chosenTeam
       => deployed']_vars

====
